---- MODULE Spec2Model ----
(***************************************************************************)
(* EvoGen: the evolutionary solve loop of EvoGenSolver, its multi-judge    *)
(* evaluator, the elite/failed partition, the final ranking and the JSON   *)
(* repair retry of GeminiClient.call.                                      *)
(*                                                                         *)
(* Two solver variants of the repository are modelled side by side:        *)
(*   "app"        src/app.py (src/app_tavily2.py has the same solve loop)  *)
(*   "gen_ai_04"  src/gen_ai_04.py (src/gen_ai.py, src/app_tavily6.py and  *)
(*                src/app_tavily5.py have the same abort checks)           *)
(***************************************************************************)
EXTENDS Integers, Sequences, FiniteSets, TLC

VARIABLES
    variant,              \* which source file's EvoGenSolver runs
    num_solutions,        \* self.num_solutions (constructor argument)
    generations,          \* solve(..., generations)
    pc,                   \* position of the solve generator
    gen,                  \* loop index i of the generation being built
    agent_personas,       \* what _generate_agent_personas returned ("none" before)
    solver_agents,        \* len(agent_personas["solver_agents"])
    evaluators,           \* len(agent_personas["evaluators"])
    history,              \* self.history
    solutions,            \* local `solutions` of solve / solve_internal
    eval_pos,             \* loop index of _evaluate_solutions (1-based)
    evaluated_solutions,  \* local list of _evaluate_solutions
    judge_responses,      \* what the evaluator calls returned for the proposal handled last
    agg_labels,           \* the labels of the aggregated texts of the proposal handled last
    elite_solutions,      \* local of _generate_next_generation
    failed_solutions,     \* local of _generate_next_generation
    llm_calls,            \* number of _call_llm invocations, by purpose
    reported,             \* the final ranking has been computed
    final_result,         \* top_5_solutions (gen_ai_04) / best_solution (app)
    call_pc,              \* position inside GeminiClient.call
    is_retry,             \* argument is_retry of the running call frame
    backend_calls,        \* model.generate_content invocations of this call
    text,                 \* response text of the last backend invocation
    first_outcome,        \* how the first response of this call was classified
    call_result,          \* what call returned
    prev_results,         \* argument evaluated_solutions of the partition
    partitioned,          \* the partition of prev_results has been computed
    prompts,              \* what each generation prompt built so far was given
    prep_pc,              \* position of EvoGenSolver_Tavily.solve before solve_internal
    query_generation,     \* how the augmentation query response was classified
    analysis_results_list,   \* number of results the analysis searches gathered
    solution_results_list,   \* number of results the solution searches gathered
    failed_searches,      \* augmentation searches that returned no results
    summary_ret,          \* how the summary response llm_ret was classified
    augmented_problem,    \* local augmented_problem
    persona_problem,      \* the problem text given to _generate_agent_personas
    solver_personas,      \* agent_personas["solver_agents"]
    agent_queries,        \* all_queries_dict.get(role, []), by role
    research_pos,         \* loop index of _run_agent_specific_research (1-based)
    updated_agents,       \* local updated_agents
    research_failures,    \* what went wrong for each persona handled so far
    stream_tail,          \* what the last step of solve yielded, in order
    abort_point,          \* how much of stream_tail preceded the return or break (0: none)
    abort_cause,          \* the check that ended the run early ("none": none did)
    tape,                 \* what a recorded run was given, step by step
    replay_pos,           \* position on the tape of the run replaying it (0: none)
    first_history         \* self.history at the end of the recorded run

solveVars == <<variant, num_solutions, generations, pc, gen, agent_personas,
               solver_agents, evaluators, history, solutions, eval_pos, evaluated_solutions,
               judge_responses, agg_labels, elite_solutions, failed_solutions,
               llm_calls,
               reported, final_result>>
callVars == <<call_pc, is_retry, backend_calls, text, first_outcome, call_result>>
partVars == <<prev_results, partitioned, prompts>>
prepVars == <<prep_pc, query_generation, analysis_results_list,
              solution_results_list, failed_searches, summary_ret,
              augmented_problem, persona_problem,
              solver_personas, agent_queries, research_pos, updated_agents,
              research_failures>>
streamVars == <<stream_tail, abort_point, abort_cause>>
replayVars == <<tape, replay_pos, first_history>>
vars == <<solveVars, callVars, partVars, prepVars, streamVars, replayVars>>

(***************************************************************************)
(* Bounds of the model.                                                    *)
(***************************************************************************)
\* A full run (Spec).
MaxGenerations == 2
MaxSolutions == 2
MaxSolvers == 2
MaxEvaluators == 1
\* One evaluation of a population (SpecEval).
MaxPopulation == 2
MaxJudges == 2
\* The elite/failed partition of a sorted list (SpecPart).
MaxPrev == 6
\* One GeminiClient.call (SpecCall).
MaxTextLen == 3

Variants == {"app", "gen_ai_04"}

\* Scores an evaluator's response may carry in a full run, in one
\* evaluation of a population, and the scores of a list to partition.
RunScores == {1, 2}
EvalScores == {0, 1, 2, 101}
PartScores == {1, 2, 3}

(***************************************************************************)
(* Values.                                                                 *)
(***************************************************************************)
\* A proposal: the dict returned by a generation call.  (gen, idx) stands
\* for its content, idx being its position in the generation's list of
\* proposals; main says whether it has the key proposal_main, which the
\* evaluator tests, and details whether it has the key proposal_details.
Proposal(g, i, m) == [gen |-> g, idx |-> i, main |-> m, details |-> m]

\* A proposal that has proposal_main and lacks proposal_details.
WithoutDetails(p) == [p EXCEPT !.details = FALSE]

\* A response of an evaluator call, as _call_llm returns it.
JudgeResponse(k, s) == [kind |-> k, total_score |-> s]

\* kind "error": the failure sentinel; "unscored": a mapping without the
\* total_score key; "scored": a mapping whose total_score is a number;
\* "null": a mapping whose total_score is not a number (JSON null).
JudgeDom(failures, scores) ==
    {JudgeResponse(k, 0) : k \in failures}
        \cup {JudgeResponse("scored", s) : s \in scores}

\* An entry of evaluated_solutions: {"solution": ..., "evaluation": ...}.
\* numeric says that the total_score it carries, if any, is a number.
Scored(p, has, s) ==
    [gen |-> p.gen, idx |-> p.idx, has_score |-> has, total_score |-> s,
     numeric |-> TRUE]

\* An entry whose evaluation has the key total_score with a value that is
\* not a number.
NullScored(p) == [Scored(p, TRUE, 0) EXCEPT !.numeric = FALSE]

\* x.get("evaluation", {}).get("total_score", 0)
SortKey(e) == IF e.has_score THEN e.total_score ELSE 0

\* Variation: generations numbered from 1.
GenerationRecordOneBased(i, results) == [generation |-> i + 1, results |-> results]

\* {"generation": i, "results": evaluated_solutions}
GenerationRecord(i, results) == [generation |-> i, results |-> results]

(***************************************************************************)
(* Pure helpers.                                                           *)
(***************************************************************************)
Min(a, b) == IF a <= b THEN a ELSE b
Max(a, b) == IF a >= b THEN a ELSE b

RECURSIVE SumScores(_)
SumScores(rs) ==
    IF rs = <<>> THEN 0 ELSE Head(rs).total_score + SumScores(Tail(rs))

\* Variation: int(total / n), truncation toward zero.
PyRoundTruncating(total, n) ==
    IF total >= 0 THEN total \div n ELSE -((-total) \div n)

\* Variation: a tie goes to the upper neighbour.
PyRoundHalfUp(total, n) == (2 * total + n) \div (2 * n)

\* Python 3 round(total / n) for an integer total and n > 0: the nearest
\* integer, a tie going to the even neighbour.
PyRound(total, n) ==
    LET q == total \div n
        r == total % n
    IN  IF 2 * r < n THEN q
        ELSE IF 2 * r > n THEN q + 1
        ELSE IF q % 2 = 0 THEN q ELSE q + 1

\* The test an evaluator's response must pass to be counted:
\* isinstance(evaluation, dict) and "total_score" in evaluation
\* and "error" not in evaluation.
IsValidEvaluation(r) == r.kind \in {"scored", "null"}

\* sum(e.get('total_score', 0) for e in individual_evaluations) adds a value
\* that is not a number to an int: TypeError.
SumRaises(rs) == \E j \in 1..Len(rs) : rs[j].kind = "null"

\* app.py keeps an evaluation that is truthy and has no "error" key.
IsKeptEvaluation(r) == r.kind # "error"

\* Variation: a descending sort that puts a later item before earlier items
\* of the same key.
RECURSIVE InsertByScoreUnstable(_, _)
InsertByScoreUnstable(e, sorted) ==
    IF sorted = <<>> THEN <<e>>
    ELSE IF SortKey(Head(sorted)) > SortKey(e)
         THEN <<Head(sorted)>> \o InsertByScoreUnstable(e, Tail(sorted))
         ELSE <<e>> \o sorted

\* list.sort(key=..., reverse=True): descending by key, equal keys keep the
\* order they had (Python's sort is stable, also with reverse=True).
RECURSIVE InsertByScore(_, _)
InsertByScore(e, sorted) ==
    IF sorted = <<>> THEN <<e>>
    ELSE IF SortKey(Head(sorted)) >= SortKey(e)
         THEN <<Head(sorted)>> \o InsertByScore(e, Tail(sorted))
         ELSE <<e>> \o sorted

\* Variation: the list is left in the order of evaluation.
LeftUnsorted(seq) == seq

RECURSIVE SortByScore(_)
SortByScore(seq) ==
    IF seq = <<>> THEN <<>>
    ELSE InsertByScore(seq[Len(seq)], SortByScore(SubSeq(seq, 1, Len(seq) - 1)))

\* Variation: the elite share rounded up.
NumElitesCeil(n) == IF 1 >= (4 * n + 9) \div 10 THEN 1 ELSE (4 * n + 9) \div 10

\* num_elites = max(1, int(len(evaluated_solutions) * 0.4)).  n * 0.4 is a
\* double product; for the list lengths a run can produce it truncates to
\* floor(4n/10).
NumElites(n) == Max(1, (4 * n) \div 10)

\* evaluated_solutions[:num_elites] and evaluated_solutions[num_elites:]
EliteOf(results) == SubSeq(results, 1, Min(NumElites(Len(results)), Len(results)))
FailedOf(results) == SubSeq(results, NumElites(Len(results)) + 1, Len(results))

\* item for gen in history for item in gen["results"]
RECURSIVE Flatten(_)
Flatten(h) ==
    IF h = <<>> THEN <<>> ELSE Head(h).results \o Flatten(Tail(h))

\* Variation: the last of the maximal items.
RECURSIVE MaxByScoreLast(_, _)
MaxByScoreLast(best, rest) ==
    IF rest = <<>> THEN best
    ELSE IF Head(rest).total_score >= best.total_score
         THEN MaxByScoreLast(Head(rest), Tail(rest))
         ELSE MaxByScoreLast(best, Tail(rest))

\* Python's max(iterable, key=...): the first of the maximal items.
RECURSIVE MaxByScore(_, _)
MaxByScore(best, rest) ==
    IF rest = <<>> THEN best
    ELSE IF SortKey(Head(rest)) > SortKey(best)
         THEN MaxByScore(Head(rest), Tail(rest))
         ELSE MaxByScore(best, Tail(rest))

\* sorted_solutions[:5]
TopN == 5

\* The ranking shown after a run.
\*   gen_ai_04: the items that carry a total_score, sorted descending, top 5.
\*   app: best_solution_overall of solve, or None (the empty sequence).
FinalRanking(v, h) ==
    LET all == Flatten(h)
    IN  IF v = "app"
        THEN IF all = <<>> THEN <<>> ELSE <<MaxByScore(Head(all), Tail(all))>>
        ELSE LET scored == SelectSeq(all, LAMBDA e : e.has_score)
                 sorted == SortByScore(scored)
             IN  SubSeq(sorted, 1, Min(TopN, Len(sorted)))

(***************************************************************************)
(* What the model gateway may return to each kind of call.                 *)
(***************************************************************************)
\* Persona synthesis: the failure sentinel of an API error, the sentinel of
\* a response still unparsable after the repair, an empty mapping, a mapping
\* lacking a roster key, a mapping with the rosters but no output_labels,
\* and a complete mapping.
PersonaKinds ==
    {"error", "parse_error", "empty", "missing_keys", "no_labels", "complete"}

\* One single-proposal generation call: no usable "solutions" list, a
\* proposal with the proposal_main key, a first list item without it.
GenKinds == {"error", "proposal", "malformed"}

\* Variation: only the "error" key and emptiness are tested.
PersonasAcceptedUnchecked(v, kind) == kind \notin {"error", "empty"}

\* not agent_personas or "error" in agent_personas
\*   or not all(k in agent_personas for k in [...])   negated.
\* gen_ai_04.py requires "output_labels" next to the two rosters; app.py
\* requires its three persona keys and knows no labels.
PersonasAccepted(v, kind) ==
    \/ kind = "complete"
    \/ kind = "no_labels" /\ v = "app"

\* Whether the variant checks `if not solutions` after seeding, `if not
\* evaluated_solutions` after evaluating and `if not
\* previous_generation_results` before evolving.
AbortsOnStarvation(v) == v = "gen_ai_04"

NoCalls == [persona |-> 0, seed |-> 0, evolve |-> 0, evaluate |-> 0]

\* The locals of a run that has not produced them yet.
FreshLocals ==
    /\ gen = 0
    /\ agent_personas = "none"
    /\ solver_agents = 0
    /\ evaluators = 0
    /\ solutions = <<>>
    /\ eval_pos = 1
    /\ evaluated_solutions = <<>>
    /\ judge_responses = <<>>
    /\ agg_labels = <<>>
    /\ elite_solutions = <<>>
    /\ failed_solutions = <<>>

CallIdle ==
    /\ call_pc = "idle"
    /\ is_retry = FALSE
    /\ backend_calls = 0
    /\ text = <<>>
    /\ first_outcome = "none"
    /\ call_result = "none"

PartIdle ==
    /\ prev_results = <<>>
    /\ partitioned = FALSE
    /\ prompts = <<>>

\* The roles of the solver personas.
Roles == {"r1", "r2"}

\* all_queries_dict = {}
NoQueries == [r \in Roles |-> "missing"]

StreamIdle ==
    /\ stream_tail = <<>>
    /\ abort_point = 0
    /\ abort_cause = "none"

ReplayIdle ==
    /\ tape = <<>>
    /\ replay_pos = 0
    /\ first_history = <<>>

PrepIdle ==
    /\ prep_pc = "idle"
    /\ query_generation = "none"
    /\ analysis_results_list = 0
    /\ solution_results_list = 0
    /\ failed_searches = 0
    /\ summary_ret = "none"
    /\ augmented_problem = "none"
    /\ persona_problem = "none"
    /\ solver_personas = <<>>
    /\ agent_queries = NoQueries
    /\ research_pos = 1
    /\ updated_agents = <<>>
    /\ research_failures = <<>>

(***************************************************************************)
(* The progress stream: what solve yields, by kind.                        *)
(***************************************************************************)
\* A "--- ... ---" progress line, the {"agent_team": ...} event, a
\* Generation Record and the line "--- ✅ 進化プロセス完了 ---".
Status == [kind |-> "status", about |-> "none"]
TeamEvent == [kind |-> "team", about |-> "none"]
RecordEvent == [kind |-> "record", about |-> "none"]
Completion == [kind |-> "completion", about |-> "none"]

\* Variation: a check that ends the run yields nothing.
ErrorMessageSilent(cause) == <<>>

\* The line "エラー: ..." each check yields before its return or break; it
\* names what failed.
ErrorMessage(cause) == <<[kind |-> "error", about |-> cause]>>

\* "**デバッグ情報:** ..." with the response of the persona synthesis.
DebugMessage == [kind |-> "debug", about |-> "persona"]

\* What follows the loop `for i in range(1, generations)`, whether it ran
\* to its end or was left by break.  gen_ai_04.py yields the completion
\* line; app.py yields an error when no record of h has a result and the
\* completion line otherwise.
AfterLoop(v, h) ==
    IF v = "app" /\ Flatten(h) = <<>>
    THEN ErrorMessage("no_results")
    ELSE <<Completion>>

\* yield "エラー: ..." and break in a pass of the loop, after the lines
\* `before` of the same step.
Break(before, cause, h) ==
    /\ stream_tail' = before \o ErrorMessage(cause) \o AfterLoop(variant, h)
    /\ abort_point' = Len(before) + Len(ErrorMessage(cause))
    /\ abort_cause' = cause

(***************************************************************************)
(* Init: an EvoGenSolver right after __init__.                             *)
(***************************************************************************)
Init ==
    /\ variant \in Variants
    /\ num_solutions \in 1..MaxSolutions
    /\ generations = 0
    /\ pc = "IDLE"
    /\ history = <<>>
    /\ llm_calls = NoCalls
    /\ reported = FALSE
    /\ final_result = <<>>
    /\ FreshLocals
    /\ CallIdle
    /\ StreamIdle
    /\ ReplayIdle
    /\ PartIdle
    /\ PrepIdle

(***************************************************************************)
(* solve(problem_statement, generations): self.history = [] and the first  *)
(* status message.  A solver may be asked to solve again once a run ended. *)
(***************************************************************************)
\* Variation: solve keeps the records of the run before.
KeptHistory(h) == h

\* self.history = []
ResetHistory(h) == <<>>

SolveFrom(gs) ==
    /\ pc \in {"IDLE", "DONE", "ABORTED"}
    /\ pc # "IDLE" => reported
    /\ \E g \in gs : generations' = g
    /\ history' = ResetHistory(history)
    /\ pc' = "PERSONA_SYNTHESIS"
    /\ llm_calls' = NoCalls
    /\ reported' = FALSE
    /\ final_result' = <<>>
    /\ gen' = 0
    /\ agent_personas' = "none"
    /\ solver_agents' = 0
    /\ evaluators' = 0
    /\ solutions' = <<>>
    /\ eval_pos' = 1
    /\ evaluated_solutions' = <<>>
    /\ judge_responses' = <<>>
    /\ agg_labels' = <<>>
    /\ elite_solutions' = <<>>
    /\ failed_solutions' = <<>>
    /\ stream_tail' = <<Status>>
    /\ abort_point' = 0
    /\ abort_cause' = "none"
    /\ UNCHANGED <<variant, num_solutions, callVars, partVars, prepVars>>

Solve == SolveFrom(1..MaxGenerations) /\ UNCHANGED replayVars

(***************************************************************************)
(* _generate_agent_personas and the check that follows it.                 *)
(***************************************************************************)
SynthesizePersonasFrom(kinds, solver_counts, evaluator_counts) ==
    /\ pc = "PERSONA_SYNTHESIS"
    /\ llm_calls' = [llm_calls EXCEPT !.persona = @ + 1]
    /\ \E kind \in kinds :
         /\ agent_personas' = kind
         /\ IF PersonasAccepted(variant, kind)
            THEN /\ pc' = "SEED_POPULATION"
                 /\ stream_tail' = <<Status, TeamEvent>>
                 /\ UNCHANGED <<abort_point, abort_cause>>
                 /\ IF variant = "app"
                    THEN solver_agents' = 1 /\ evaluators' = 1
                    ELSE /\ solver_agents' \in solver_counts
                         /\ evaluators' \in evaluator_counts
            ELSE /\ pc' = "ABORTED"
                 /\ stream_tail' = ErrorMessage("persona") \o <<DebugMessage>>
                 /\ abort_point' = Len(stream_tail')
                 /\ abort_cause' = "persona"
                 /\ UNCHANGED <<solver_agents, evaluators>>
    /\ UNCHANGED <<variant, num_solutions, generations, gen, history, solutions,
                   eval_pos, evaluated_solutions, judge_responses, agg_labels,
                   elite_solutions, failed_solutions, reported, final_result,
                   callVars, partVars, prepVars>>

SynthesizePersonas ==
    /\ SynthesizePersonasFrom(PersonaKinds, 0..MaxSolvers, 0..MaxEvaluators)
    /\ UNCHANGED replayVars

(***************************************************************************)
(* Proposal generation.                                                    *)
(***************************************************************************)
\* gen_ai_04.py: the loop `for i ...: response = _call_llm(prompt); if ...
\* len(response["solutions"]) > 0: append(response["solutions"][0])` over
\* calls 1..n whose responses are f[1..n]; failed calls are skipped.
\* Variation: every item of a response's list is taken, two per response.
RECURSIVE CollectBoth(_, _, _)
CollectBoth(g, f, n) ==
    IF n = 0 THEN <<>>
    ELSE LET before == CollectBoth(g, f, n - 1)
         IN  IF f[n] = "error" THEN before
             ELSE before \o <<Proposal(g, Len(before) + 1, f[n] = "proposal"),
                              Proposal(g, Len(before) + 2, f[n] = "proposal")>>

RECURSIVE CollectFirst(_, _, _)
CollectFirst(g, f, n) ==
    IF n = 0 THEN <<>>
    ELSE LET before == CollectFirst(g, f, n - 1)
         IN  IF f[n] = "error" THEN before
             ELSE Append(before, Proposal(g, Len(before) + 1, f[n] = "proposal"))

\* app.py: response.get("solutions", []) of the single call: the whole list
\* the model returned, of any length k.
WholeList(g, k) == [i \in 1..k |-> Proposal(g, i, TRUE)]

\* _generate_initial_solutions, then `if not solutions` of the caller.
SeedPopulationFrom(responses, lengths) ==
    /\ pc = "SEED_POPULATION"
    /\ \/ /\ variant = "gen_ai_04"
          /\ \E f \in responses :
               solutions' = CollectFirst(0, f, solver_agents)
          /\ llm_calls' = [llm_calls EXCEPT !.seed = @ + solver_agents]
       \/ /\ variant = "app"
          /\ \E k \in lengths : solutions' = WholeList(0, k)
          /\ llm_calls' = [llm_calls EXCEPT !.seed = @ + 1]
    /\ IF AbortsOnStarvation(variant) /\ solutions' = <<>>
       THEN /\ pc' = "ABORTED"
            /\ stream_tail' = <<Status>> \o ErrorMessage("seed")
            /\ abort_point' = 1 + Len(ErrorMessage("seed"))
            /\ abort_cause' = "seed"
       ELSE /\ pc' = "EVALUATE"
            /\ stream_tail' = <<Status, Status>>
            /\ UNCHANGED <<abort_point, abort_cause>>
    /\ gen' = 0
    /\ eval_pos' = 1
    /\ evaluated_solutions' = <<>>
    /\ judge_responses' = <<>>
    /\ agg_labels' = <<>>
    /\ UNCHANGED <<variant, num_solutions, generations, agent_personas,
                   solver_agents, evaluators, history, elite_solutions, failed_solutions,
                   reported, final_result, callVars, partVars, prepVars>>

SeedPopulation ==
    /\ SeedPopulationFrom([1..solver_agents -> GenKinds], 0..MaxSolutions)
    /\ UNCHANGED replayVars

\* Variation: the partition is computed from the first record.
FirstGenerationResults(h) == h[1].results

\* previous_generation_results = self.history[-1]["results"]
PreviousGenerationResults(h) == h[Len(h)].results

\* One pass of the loop `for i in range(1, generations)` up to the
\* evaluation: the check of previous_generation_results,
\* _generate_next_generation and `if not solutions`.
EvolveFrom(responses, lengths) ==
    /\ pc = "EVOLVE"
    /\ LET previous_generation_results == PreviousGenerationResults(history)
       IN  IF AbortsOnStarvation(variant) /\ previous_generation_results = <<>>
           THEN /\ pc' = "ABORTED"
                /\ Break(<<Status>>, "previous", history)
                /\ UNCHANGED <<solutions, elite_solutions, failed_solutions,
                               llm_calls>>
           ELSE IF variant = "gen_ai_04" /\ solver_agents = 0
           THEN /\ pc' = "ABORTED"
                /\ solutions' = <<>>
                /\ Break(<<Status>>, "evolve", history)
                /\ UNCHANGED <<elite_solutions, failed_solutions, llm_calls>>
           ELSE /\ elite_solutions' = EliteOf(previous_generation_results)
                /\ failed_solutions' = FailedOf(previous_generation_results)
                /\ IF variant = "gen_ai_04"
                   THEN /\ \E f \in responses :
                             solutions' = CollectFirst(gen, f, num_solutions)
                        /\ llm_calls' =
                             [llm_calls EXCEPT !.evolve = @ + num_solutions]
                   ELSE /\ \E k \in lengths :
                             solutions' = WholeList(gen, k)
                        /\ llm_calls' = [llm_calls EXCEPT !.evolve = @ + 1]
                /\ IF solutions' = <<>>
                   THEN /\ pc' = "ABORTED"
                        /\ Break(<<Status>>, "evolve", history)
                   ELSE /\ pc' = "EVALUATE"
                        /\ stream_tail' = <<Status, Status>>
                        /\ UNCHANGED <<abort_point, abort_cause>>
    /\ eval_pos' = 1
    /\ evaluated_solutions' = <<>>
    /\ judge_responses' = <<>>
    /\ agg_labels' = <<>>
    /\ UNCHANGED <<variant, num_solutions, generations, gen, agent_personas,
                   solver_agents, evaluators, history, reported, final_result, callVars,
                   partVars, prepVars>>

Evolve ==
    /\ EvolveFrom([1..num_solutions -> GenKinds], 0..MaxSolutions)
    /\ UNCHANGED replayVars

(***************************************************************************)
(* _evaluate_solutions.                                                    *)
(***************************************************************************)
\* The roles of the evaluator personas, by position in the roster.
EvaluatorRoles == <<"e1", "e2", "e3", "e4">>

\* e.get('role', 'N/A') of an evaluator's response: the output format the
\* evaluation prompt asks for has no role key.
ResponseRole(e) == "N/A"

\* The labels "評価者{k+1} ({e.get('role', 'N/A')})" of agg_strengths,
\* agg_weaknesses and agg_comment: k enumerates individual_evaluations.
AggregateLabels(rs) ==
    LET individual_evaluations == SelectSeq(rs, IsValidEvaluation)
    IN  [k \in 1..Len(individual_evaluations) |->
            [judge |-> k, role |-> ResponseRole(individual_evaluations[k])]]

\* The aggregated entry of one proposal in gen_ai_04.py, or nothing:
\* individual_evaluations are the valid responses, in judge order;
\* total_score = round(sum / len).
Aggregate(p, rs) ==
    LET individual_evaluations == SelectSeq(rs, IsValidEvaluation)
    IN  IF individual_evaluations = <<>> THEN <<>>
        ELSE <<Scored(p, TRUE, PyRound(SumScores(individual_evaluations),
                                       Len(individual_evaluations)))>>

\* The entry of one proposal in app.py, or nothing: the single evaluator's
\* response is stored as it came.
KeepSingle(p, r) ==
    IF ~IsKeptEvaluation(r) THEN <<>>
    ELSE IF r.kind = "null" THEN <<NullScored(p)>>
    ELSE <<Scored(p, r.kind = "scored", r.total_score)>>

\* list.sort compares the keys of a list of two or more items; comparing a
\* key that is not a number raises TypeError.
SortRaises(seq) ==
    /\ Len(seq) >= 2
    /\ \E i \in 1..Len(seq) : ~seq[i].numeric

\* The evaluator roster is a usable list (gen_ai_04.py); app.py passes the
\* single evaluator persona and does not check it.
EvaluatorsUsable == variant = "app" \/ evaluators > 0

\* One pass of the loop `for i, solution in enumerate(solutions)`.  An
\* exception raised in it leaves the generator and solve: pc = "RAISED".
EvaluateProposalFrom(responses) ==
    /\ pc = "EVALUATE"
    /\ EvaluatorsUsable
    /\ eval_pos <= Len(solutions)
    /\ LET solution == solutions[eval_pos]
       IN  IF variant = "gen_ai_04"
           THEN IF ~solution.main
                THEN /\ judge_responses' = <<>>
                     /\ agg_labels' = <<>>
                     /\ UNCHANGED <<evaluated_solutions, llm_calls, pc>>
                ELSE /\ \E rs \in responses :
                          /\ judge_responses' = rs
                          /\ IF SumRaises(rs)
                             THEN /\ pc' = "RAISED"
                                  /\ agg_labels' = <<>>
                                  /\ UNCHANGED evaluated_solutions
                             ELSE /\ pc' = pc
                                  /\ agg_labels' = AggregateLabels(rs)
                                  /\ evaluated_solutions' =
                                       evaluated_solutions
                                           \o Aggregate(solution, rs)
                     /\ llm_calls' =
                          [llm_calls EXCEPT !.evaluate = @ + evaluators]
           ELSE /\ \E rs \in responses :
                     /\ judge_responses' = rs
                     /\ agg_labels' = <<>>
                     /\ evaluated_solutions' =
                          evaluated_solutions \o KeepSingle(solution, rs[1])
                /\ llm_calls' = [llm_calls EXCEPT !.evaluate = @ + 1]
                /\ pc' = pc
    /\ eval_pos' = eval_pos + 1
    /\ stream_tail' = <<Status>>
    /\ UNCHANGED <<abort_point, abort_cause>>
    /\ UNCHANGED <<variant, num_solutions, generations, gen, agent_personas,
                   solver_agents, evaluators, history, solutions, elite_solutions,
                   failed_solutions, reported, final_result, callVars,
                   partVars, prepVars>>

\* The responses one pass may be given: one per evaluator in gen_ai_04.py,
\* one in app.py.
JudgeInputs(dom) == [1..(IF variant = "app" THEN 1 ELSE evaluators) -> dom]

EvaluateProposal(dom) ==
    /\ EvaluateProposalFrom(JudgeInputs(dom))
    /\ UNCHANGED replayVars

\* Variation: the loop makes one pass more.
LoopContinuesInclusive(i, g) == i + 1 <= g

\* `for i in range(1, generations)`: after the pass of generation i (the
\* seeding for i = 0) there is a pass for i + 1 when i + 1 < generations.
LoopContinues(i, g) == i + 1 < g

\* Variation: the new record takes the place of the records before it.
ReplaceRecords(h, record) == <<record>>

\* self.history.append({"generation": i, "results": ...})
AppendRecord(h, record) == Append(h, record)

\* The end of _evaluate_solutions and what solve does with its result: the
\* sort, `if not evaluated_solutions`, self.history.append and the loop
\* test of `for i in range(1, generations)`.
FinishEvaluation ==
    /\ pc = "EVALUATE"
    /\ ~EvaluatorsUsable \/ eval_pos > Len(solutions)
    /\ IF EvaluatorsUsable /\ SortRaises(evaluated_solutions)
       THEN /\ pc' = "RAISED"
            /\ stream_tail' = <<>>
            /\ UNCHANGED <<history, gen, abort_point, abort_cause>>
       ELSE LET results == IF EvaluatorsUsable
                           THEN SortByScore(evaluated_solutions)
                           ELSE <<>>
            IN  IF AbortsOnStarvation(variant) /\ results = <<>>
                THEN /\ pc' = "ABORTED"
                     /\ IF gen = 0
                        THEN /\ stream_tail' = ErrorMessage("evaluation")
                             /\ abort_point' = Len(stream_tail')
                             /\ abort_cause' = "evaluation"
                        ELSE Break(<<>>, "evaluation", history)
                     /\ UNCHANGED <<history, gen>>
                ELSE /\ history' =
                          AppendRecord(history, GenerationRecord(gen, results))
                     /\ IF LoopContinues(gen, generations)
                        THEN /\ pc' = "EVOLVE"
                             /\ gen' = gen + 1
                             /\ stream_tail' = <<RecordEvent>>
                        ELSE /\ pc' = "DONE"
                             /\ gen' = gen
                             /\ stream_tail' =
                                  <<RecordEvent>> \o AfterLoop(variant, history')
                     /\ UNCHANGED <<abort_point, abort_cause>>
    /\ evaluated_solutions' = <<>>
    /\ judge_responses' = <<>>
    /\ agg_labels' = <<>>
    /\ eval_pos' = 1
    /\ UNCHANGED <<variant, num_solutions, generations, agent_personas,
                   solver_agents, evaluators, solutions, elite_solutions, failed_solutions,
                   llm_calls, reported, final_result, callVars, partVars, prepVars, replayVars>>

(***************************************************************************)
(* The ranking computed once the stream has ended.                         *)
(***************************************************************************)
RankFinal ==
    /\ pc \in {"DONE", "ABORTED"}
    /\ ~reported
    /\ reported' = TRUE
    /\ final_result' = FinalRanking(variant, history)
    /\ UNCHANGED <<variant, num_solutions, generations, pc, gen, agent_personas,
                   solver_agents, evaluators, history, solutions, eval_pos,
                   evaluated_solutions, judge_responses, agg_labels, elite_solutions,
                   failed_solutions, llm_calls, callVars, partVars, prepVars, streamVars, replayVars>>

RunJudgeDom == JudgeDom({"error"}, RunScores)

Next ==
    \/ Solve
    \/ SynthesizePersonas
    \/ SeedPopulation
    \/ Evolve
    \/ EvaluateProposal(RunJudgeDom)
    \/ FinishEvaluation
    \/ RankFinal

Spec == Init /\ [][Next]_vars

(***************************************************************************)
(* SpecLineage: one run of up to LineageGenerations generations of the     *)
(* gen_ai_04.py solver from the point where the personas were accepted, so *)
(* that the loop `for i in range(1, generations)` makes more than one pass.*)
(***************************************************************************)
LineageGenerations == 3

InitLineage ==
    /\ variant = "gen_ai_04"
    /\ num_solutions = MaxSolutions
    /\ generations \in 1..LineageGenerations
    /\ pc = "SEED_POPULATION"
    /\ gen = 0
    /\ agent_personas = "complete"
    /\ solver_agents = 1
    /\ evaluators = 1
    /\ history = <<>>
    /\ solutions = <<>>
    /\ eval_pos = 1
    /\ evaluated_solutions = <<>>
    /\ judge_responses = <<>>
    /\ agg_labels = <<>>
    /\ elite_solutions = <<>>
    /\ failed_solutions = <<>>
    /\ llm_calls = [NoCalls EXCEPT !.persona = 1]
    /\ reported = FALSE
    /\ final_result = <<>>
    /\ stream_tail = <<Status, TeamEvent>>
    /\ abort_point = 0
    /\ abort_cause = "none"
    /\ CallIdle
    /\ ReplayIdle
    /\ PartIdle
    /\ PrepIdle

NextLineage ==
    \/ SeedPopulation
    \/ Evolve
    \/ EvaluateProposal(RunJudgeDom)
    \/ FinishEvaluation
    \/ RankFinal

SpecLineage == InitLineage /\ [][NextLineage]_vars

(***************************************************************************)
(* SpecEval: _evaluate_solutions on one population, with every kind of     *)
(* evaluator response.  It starts where a run stands after seeding.        *)
(***************************************************************************)
EvalJudgeDom == JudgeDom({"error", "unscored", "null"}, EvalScores)

\* The shapes a proposal of a population has: both keys, proposal_main
\* only, or no proposal_main.  app.py reads neither key.
ProposalShapes(v) ==
    IF v = "app" THEN {"complete"}
    ELSE {"complete", "no_details", "malformed"}

Shaped(p, shape) == IF shape = "no_details" THEN WithoutDetails(p) ELSE p

Populations(v) ==
    UNION {
        {[i \in 1..k |->
              Shaped(Proposal(0, i, m[i] # "malformed"), m[i])] :
            m \in [1..k -> ProposalShapes(v)]}
        : k \in 1..MaxPopulation}

InitEval ==
    /\ variant \in Variants
    /\ num_solutions = MaxSolutions
    /\ generations = 1
    /\ pc = "EVALUATE"
    /\ gen = 0
    /\ agent_personas = "complete"
    /\ solutions \in Populations(variant)
    /\ solver_agents = IF variant = "app" THEN 1 ELSE Len(solutions)
    /\ evaluators \in IF variant = "app" THEN {1} ELSE 1..MaxJudges
    /\ history = <<>>
    /\ eval_pos = 1
    /\ evaluated_solutions = <<>>
    /\ judge_responses = <<>>
    /\ agg_labels = <<>>
    /\ elite_solutions = <<>>
    /\ failed_solutions = <<>>
    /\ llm_calls = [persona |-> 1, seed |-> solver_agents, evolve |-> 0,
                    evaluate |-> 0]
    /\ reported = FALSE
    /\ final_result = <<>>
    /\ CallIdle
    /\ StreamIdle
    /\ ReplayIdle
    /\ PartIdle
    /\ PrepIdle

NextEval ==
    \/ EvaluateProposal(EvalJudgeDom)
    \/ FinishEvaluation

SpecEval == InitEval /\ [][NextEval]_vars

(***************************************************************************)
(* SpecPart: the partition of _generate_next_generation applied to sorted  *)
(* result lists of every length up to MaxPrev.                             *)
(***************************************************************************)
SortedLists ==
    UNION {
        {[i \in 1..n |-> Scored(Proposal(0, i, TRUE), TRUE, s[i])] :
            s \in {t \in [1..n -> PartScores] :
                      \A i \in 1..n : \A j \in i..n : t[i] >= t[j]}}
        : n \in 0..MaxPrev}

InitPart ==
    /\ variant \in Variants
    /\ num_solutions = MaxSolutions
    /\ generations = 0
    /\ pc = "IDLE"
    /\ history = <<>>
    /\ llm_calls = NoCalls
    /\ reported = FALSE
    /\ final_result = <<>>
    /\ gen = 1
    /\ agent_personas = "complete"
    /\ solver_agents \in 1..MaxSolvers
    /\ evaluators = 1
    /\ solutions = <<>>
    /\ eval_pos = 1
    /\ evaluated_solutions = <<>>
    /\ judge_responses = <<>>
    /\ agg_labels = <<>>
    /\ elite_solutions = <<>>
    /\ failed_solutions = <<>>
    /\ CallIdle
    /\ StreamIdle
    /\ ReplayIdle
    /\ prev_results \in SortedLists
    /\ partitioned = FALSE
    /\ prompts = <<>>
    /\ PrepIdle

\* num_elites, elite_solutions and failed_solutions of
\* _generate_next_generation(prev_results, ...).
Partition ==
    /\ ~partitioned
    /\ elite_solutions' = EliteOf(prev_results)
    /\ failed_solutions' = FailedOf(prev_results)
    /\ partitioned' = TRUE
    /\ UNCHANGED <<variant, num_solutions, generations, pc, gen, agent_personas,
                   solver_agents, evaluators, history, solutions, eval_pos,
                   evaluated_solutions, judge_responses, agg_labels, llm_calls, reported,
                   final_result, prev_results, prompts, callVars, prepVars, streamVars, replayVars>>

\* What get_revolutionary_generation_prompt is given: the problem, the
\* number 1 and the existing roles; no proposal of the previous generation.
RevolutionaryPrompt(existing_roles) ==
    [branch |-> "mutation", elite |-> <<>>, failed |-> <<>>, agent |-> 0,
     roles |-> existing_roles]

\* Variation: the recombination prompt is built without the failed subset.
NextGenerationPromptWithoutFailed(elite, failed, agent) ==
    [branch |-> "recombination", elite |-> elite, failed |-> <<>>,
     agent |-> agent, roles |-> 0]

\* What get_next_generation_prompt is given: elite_text is built from every
\* entry of elite_solutions, failed_text from every entry of
\* failed_solutions, and the context is the selected persona.
NextGenerationPrompt(elite, failed, agent) ==
    [branch |-> "recombination", elite |-> elite, failed |-> failed,
     agent |-> agent, roles |-> 0]

\* The number of prompts one _generate_next_generation builds: one per unit
\* in gen_ai_04.py, one for the whole generation in app.py.
PromptsPerStep == IF variant = "gen_ai_04" THEN num_solutions ELSE 1

\* One prompt of _generate_next_generation.  gen_ai_04.py draws
\* random.random() < 0.20 for the mutation branch and random.choice for the
\* persona of the recombination branch; app.py always recombines, with the
\* one context of the run.
BuildPrompt ==
    /\ partitioned
    /\ Len(prompts) < PromptsPerStep
    /\ IF variant = "gen_ai_04"
       THEN \E mutation \in BOOLEAN : \E selected \in 1..solver_agents :
               prompts' = Append(prompts,
                   IF mutation
                   THEN RevolutionaryPrompt(solver_agents)
                   ELSE NextGenerationPrompt(elite_solutions, failed_solutions,
                                             selected))
       ELSE prompts' = Append(prompts,
               NextGenerationPrompt(elite_solutions, failed_solutions, 1))
    /\ UNCHANGED <<solveVars, prev_results, partitioned, callVars, prepVars, streamVars, replayVars>>

NextPart ==
    \/ Partition
    \/ BuildPrompt

SpecPart == InitPart /\ [][NextPart]_vars

(***************************************************************************)
(* GeminiClient.call of gen_ai_04.py (gen_ai.py has the same code).        *)
(***************************************************************************)
\* The characters a response text is made of: the four the extraction looks
\* for, and one standing for any other character.
Chars == {"{", "}", "[", "]", "x"}

Texts == UNION {[1..n -> Chars] : n \in 1..MaxTextLen}

\* str.find / str.rfind: the first / last position of c in t, 0 when there
\* is none (positions are 1-based here, Python's -1 is 0).
Find(t, c) ==
    IF \E i \in 1..Len(t) : t[i] = c
    THEN CHOOSE i \in 1..Len(t) : t[i] = c /\ \A j \in 1..(i - 1) : t[j] # c
    ELSE 0

RFind(t, c) ==
    IF \E i \in 1..Len(t) : t[i] = c
    THEN CHOOSE i \in 1..Len(t) : t[i] = c /\ \A j \in (i + 1)..Len(t) : t[j] # c
    ELSE 0

\* _extract_json: the text from the first opening brace or bracket to the
\* last closing one; None is the empty sequence.
ExtractJson(t) ==
    LET start_brace == Find(t, "{")
        start_bracket == Find(t, "[")
        start == IF start_brace = 0 THEN start_bracket
                 ELSE IF start_bracket = 0 THEN start_brace
                 ELSE Min(start_brace, start_bracket)
        end_brace == RFind(t, "}")
        end_bracket == RFind(t, "]")
        end == Max(end_brace, end_bracket)
    IN  IF t = <<>> THEN <<>>
        ELSE IF start_brace = 0 /\ start_bracket = 0 THEN <<>>
        ELSE IF end_brace = 0 /\ end_bracket = 0 THEN <<>>
        ELSE IF end <= start THEN <<>>
        ELSE SubSeq(t, start, end)

\* Whether json.loads accepts s.  Over Chars the JSON texts are the empty
\* object, the empty array and an array holding one JSON value.
RECURSIVE JsonLoads(_)
JsonLoads(s) ==
    \/ s = <<"{", "}">>
    \/ s = <<"[", "]">>
    \/ /\ Len(s) >= 3
       /\ s[1] = "["
       /\ s[Len(s)] = "]"
       /\ JsonLoads(SubSeq(s, 2, Len(s) - 1))

\* How call treats a response text: parsed, no JSON block found, or a block
\* that does not parse.
Classify(t) ==
    LET cleaned_text == ExtractJson(t)
    IN  IF cleaned_text = <<>> THEN "no_json"
        ELSE IF JsonLoads(cleaned_text) THEN "parsed" ELSE "bad_json"

\* Variation: the repair call does not mark itself as the retry.
RepairIsRetryUnset == FALSE

\* The is_retry argument of the recursive call that asks for the repair:
\* self.call(repair_prompt, is_retry=True).
RepairIsRetry == TRUE

InitCall ==
    /\ variant = "gen_ai_04"
    /\ num_solutions = MaxSolutions
    /\ generations = 0
    /\ pc = "IDLE"
    /\ history = <<>>
    /\ llm_calls = NoCalls
    /\ reported = FALSE
    /\ final_result = <<>>
    /\ FreshLocals
    /\ CallIdle
    /\ StreamIdle
    /\ ReplayIdle
    /\ PartIdle
    /\ PrepIdle

\* client.call(prompt): the outermost frame is entered, is_retry = False.
Call ==
    /\ call_pc \in {"idle", "returned"}
    /\ call_pc' = "generate"
    /\ is_retry' = FALSE
    /\ backend_calls' = 0
    /\ text' = <<>>
    /\ first_outcome' = "none"
    /\ call_result' = "none"
    /\ UNCHANGED <<solveVars, partVars, prepVars, streamVars, replayVars>>

\* model.generate_content raises: the except branch returns the sentinel
\* {"error": ...} in the first frame as in the repair frame.
GenerateRaises ==
    /\ call_pc = "generate"
    /\ backend_calls' = backend_calls + 1
    /\ first_outcome' = IF is_retry THEN first_outcome ELSE "exception"
    /\ call_pc' = "returned"
    /\ call_result' = "error"
    /\ UNCHANGED <<is_retry, text, solveVars, partVars, prepVars, streamVars, replayVars>>

\* model.generate_content returns a text: it is parsed and returned, or it
\* is not parsable and the frame either returns the parse_error sentinel
\* (is_retry) or calls itself once more with the repair prompt.
GenerateReturns ==
    /\ call_pc = "generate"
    /\ backend_calls' = backend_calls + 1
    /\ \E t \in Texts :
         /\ text' = t
         /\ first_outcome' = IF is_retry THEN first_outcome ELSE Classify(t)
         /\ IF Classify(t) = "parsed"
            THEN /\ call_pc' = "returned"
                 /\ call_result' = "parsed"
                 /\ UNCHANGED is_retry
            ELSE IF is_retry
            THEN /\ call_pc' = "returned"
                 /\ call_result' = "parse_error"
                 /\ UNCHANGED is_retry
            ELSE /\ call_pc' = "generate"
                 /\ is_retry' = RepairIsRetry
                 /\ call_result' = "none"
    /\ UNCHANGED <<solveVars, partVars, prepVars, streamVars, replayVars>>

NextCall ==
    \/ Call
    \/ GenerateRaises
    \/ GenerateReturns

SpecCall == InitCall /\ [][NextCall]_vars

\* The backend answers every request: with a text or by raising.
SpecCallFair ==
    SpecCall /\ WF_vars(GenerateRaises \/ GenerateReturns)

(***************************************************************************)
(* EvoGenSolver_Tavily.solve of gen_ai_04.py from its first statement to   *)
(* the call of solve_internal: problem augmentation, persona synthesis and *)
(* the per-agent research.                                                 *)
(***************************************************************************)
\* Queries per search phase and per persona.
MaxQueries == 2

\* What becomes of one augmentation query: a blank string is not searched;
\* the search returns the error mapping, a mapping with an empty results
\* list, or a mapping with results.
QueryOutcomes == {"blank", "error", "empty", "results"}
SearchKinds == {"error", "empty", "results"}

\* The response to the summary prompt: the failure sentinel or a mapping
\* without any summary key; a mapping with a summary key; a mapping with a
\* summary key whose values cannot be composed (the inner try passes).
SummaryKinds == {"error", "summary", "unusable"}

\* all_queries_dict.get(role, []): no entry or an empty list; a list of
\* blank strings only; a list with queries.
AgentQueryKinds == {"missing", "blank", "queries"}

\* The response to the analysis prompt: the failure sentinel, a mapping
\* whose key_insights is no list, an empty list, a list of insights.
AnalysisKinds == {"error", "no_list", "empty_list", "insights"}

\* A solver persona: its role and its agent_research_insights ("none": the
\* key is absent, "empty": [], "filled": a non-empty list).
Persona(r) == [role |-> r, insights |-> "none"]

Rosters == UNION {[1..n -> {Persona(r) : r \in Roles}] : n \in 0..MaxSolvers}

\* The number of queries of a phase whose search returned results.
RECURSIVE Hits(_)
Hits(outcomes) ==
    IF outcomes = <<>> THEN 0
    ELSE (IF Head(outcomes) = "results" THEN 1 ELSE 0) + Hits(Tail(outcomes))

\* The number of queries of a phase whose search returned the error mapping
\* or no result.
RECURSIVE Misses(_)
Misses(outcomes) ==
    IF outcomes = <<>> THEN 0
    ELSE (IF Head(outcomes) \in {"error", "empty"} THEN 1 ELSE 0)
             + Misses(Tail(outcomes))

QueryLists == UNION {[1..n -> QueryOutcomes] : n \in 0..MaxQueries}

\* Variation: the fallback text is composed also from no results.
SummarizeWithoutResultsFallback == "fallback"

\* _summarize_multi_phase_results_with_llm with both result lists empty:
\* return problem_statement.
SummarizeWithoutResults == "original"

\* Variation: a failed summary gives back the problem statement alone.
SummarizeFallbackOriginal == "original"

\* _summarize_multi_phase_results_with_llm after a failed summary: the
\* titles and URLs of the first results of both phases, the separator and
\* problem_statement.
SummarizeFallback == "fallback"

\* _summarize_multi_phase_results_with_llm: the original problem statement,
\* the composed text or the fallback text.
SummarizeMultiPhase(analysis, solution, llm_ret) ==
    IF analysis = 0 /\ solution = 0 THEN SummarizeWithoutResults
    ELSE IF llm_ret = "summary" THEN "composed"
    ELSE SummarizeFallback

\* Variation: a persona without research results is left out of the list.
DropWithoutInsights(agent_context) == <<>>

\* updated_agents.append(agent_context) for a persona without queries or
\* without search results: the persona as it was.
KeepWithoutInsights(agent_context) == <<agent_context>>

\* agent_context["agent_research_insights"] = insights
WithInsights(agent_context, analysis_response) ==
    [agent_context EXCEPT !.insights =
        IF analysis_response = "insights" THEN "filled" ELSE "empty"]

\* solve(problem_statement, generations): self.history = [].
TavilySolve ==
    /\ prep_pc \in {"idle", "READY", "ABORTED"}
    /\ prep_pc' = "AUGMENT"
    /\ query_generation' = "none"
    /\ analysis_results_list' = 0
    /\ solution_results_list' = 0
    /\ failed_searches' = 0
    /\ summary_ret' = "none"
    /\ augmented_problem' = "none"
    /\ persona_problem' = "none"
    /\ solver_personas' = <<>>
    /\ agent_queries' = NoQueries
    /\ research_pos' = 1
    /\ updated_agents' = <<>>
    /\ research_failures' = <<>>
    /\ UNCHANGED <<solveVars, callVars, partVars,
                   streamVars, replayVars>>

\* Step 1: the query generation call, the searches of both phases and the
\* summary.
AugmentProblem ==
    /\ prep_pc = "AUGMENT"
    /\ \/ /\ query_generation' = "failed"
          /\ analysis_results_list' = 0
          /\ solution_results_list' = 0
          /\ failed_searches' = 0
          /\ summary_ret' = "none"
          /\ augmented_problem' = "original"
       \/ /\ query_generation' = "generated"
          /\ \E analysis_queries \in QueryLists, solution_queries \in QueryLists,
                llm_ret \in SummaryKinds :
               /\ analysis_results_list' = Hits(analysis_queries)
               /\ solution_results_list' = Hits(solution_queries)
               /\ failed_searches' =
                    Misses(analysis_queries) + Misses(solution_queries)
               /\ summary_ret' =
                    IF Hits(analysis_queries) = 0 /\ Hits(solution_queries) = 0
                    THEN "none" ELSE llm_ret
               /\ augmented_problem' =
                    SummarizeMultiPhase(Hits(analysis_queries),
                                        Hits(solution_queries), llm_ret)
    /\ prep_pc' = "PERSONA"
    /\ UNCHANGED <<persona_problem, solver_personas, agent_queries,
                   research_pos, updated_agents, research_failures,
                   solveVars, callVars, partVars,
                   streamVars, replayVars>>

\* Step 2: _generate_agent_personas(augmented_problem) and the check.
SynthesizeTeam ==
    /\ prep_pc = "PERSONA"
    /\ persona_problem' = augmented_problem
    /\ \E kind \in PersonaKinds :
         IF PersonasAccepted("gen_ai_04", kind)
         THEN /\ prep_pc' = "RESEARCH"
              /\ solver_personas' \in Rosters
         ELSE /\ prep_pc' = "ABORTED"
              /\ UNCHANGED solver_personas
    /\ UNCHANGED <<query_generation, analysis_results_list,
                   solution_results_list, failed_searches, summary_ret, augmented_problem, agent_queries,
                   research_pos, updated_agents, research_failures,
                   solveVars, callVars, partVars,
                   streamVars, replayVars>>

\* _run_agent_specific_research up to its loop: the check of solver_agents
\* and the batched query generation.  An empty result makes solve continue
\* with agent_personas["solver_agents"].
GenerateAgentQueries ==
    /\ prep_pc = "RESEARCH"
    /\ IF solver_personas = <<>>
       THEN /\ prep_pc' = "READY"
            /\ updated_agents' = solver_personas
            /\ UNCHANGED <<agent_queries, research_failures>>
       ELSE \/ /\ agent_queries' = NoQueries
               /\ prep_pc' = "READY"
               /\ updated_agents' = solver_personas
               /\ research_failures' =
                    [i \in 1..Len(solver_personas) |-> "batch"]
            \/ /\ agent_queries' \in [Roles -> AgentQueryKinds]
               /\ prep_pc' = "RESEARCH_LOOP"
               /\ updated_agents' = <<>>
               /\ research_failures' = <<>>
    /\ research_pos' = 1
    /\ UNCHANGED <<query_generation, analysis_results_list,
                   solution_results_list, failed_searches, summary_ret, augmented_problem, persona_problem,
                   solver_personas, solveVars, callVars, partVars,
                   streamVars, replayVars>>

\* One pass of the loop `for i, agent_context in enumerate(solver_agents)`.
\* The insights are written into the persona itself, which the input list
\* holds too.
ResearchAgent ==
    /\ prep_pc = "RESEARCH_LOOP"
    /\ research_pos <= Len(solver_personas)
    /\ LET agent_context == solver_personas[research_pos]
           queries == agent_queries[agent_context.role]
       IN  \/ /\ queries = "missing"
              /\ updated_agents' =
                   updated_agents \o KeepWithoutInsights(agent_context)
              /\ research_failures' = Append(research_failures, "no_queries")
              /\ UNCHANGED solver_personas
           \/ /\ queries # "missing"
              /\ \E n \in 1..MaxQueries : \E found \in [1..n -> SearchKinds] :
                   /\ queries = "blank" => Hits(found) = 0
                   /\ IF Hits(found) = 0
                      THEN /\ updated_agents' =
                                updated_agents
                                    \o KeepWithoutInsights(agent_context)
                           /\ research_failures' =
                                Append(research_failures, "search")
                           /\ UNCHANGED solver_personas
                      ELSE \E analysis_response \in AnalysisKinds :
                           LET agent ==
                                   WithInsights(agent_context,
                                                analysis_response)
                           IN  /\ solver_personas' =
                                    [solver_personas EXCEPT
                                        ![research_pos] = agent]
                               /\ updated_agents' =
                                    Append(updated_agents, agent)
                               /\ research_failures' =
                                    Append(research_failures,
                                           IF analysis_response
                                                \in {"error", "no_list"}
                                           THEN "analysis" ELSE "none")
    /\ research_pos' = research_pos + 1
    /\ UNCHANGED <<prep_pc, query_generation, analysis_results_list,
                   solution_results_list, failed_searches, summary_ret, augmented_problem, persona_problem,
                   agent_queries, solveVars, callVars, partVars,
                   streamVars, replayVars>>

\* The end of the loop: return updated_agents; solve stores the list and
\* calls solve_internal.
FinishResearch ==
    /\ prep_pc = "RESEARCH_LOOP"
    /\ research_pos > Len(solver_personas)
    /\ prep_pc' = "READY"
    /\ UNCHANGED <<query_generation, analysis_results_list,
                   solution_results_list, failed_searches, summary_ret, augmented_problem, persona_problem,
                   solver_personas, agent_queries, research_pos,
                   updated_agents, research_failures,
                   solveVars, callVars, partVars,
                   streamVars, replayVars>>

InitPrelude ==
    /\ variant = "gen_ai_04"
    /\ num_solutions = MaxSolutions
    /\ generations = 0
    /\ pc = "IDLE"
    /\ history = <<>>
    /\ llm_calls = NoCalls
    /\ reported = FALSE
    /\ final_result = <<>>
    /\ FreshLocals
    /\ CallIdle
    /\ StreamIdle
    /\ ReplayIdle
    /\ PartIdle
    /\ PrepIdle

\* SpecPrelude: steps 1 and 2, up to the call of the research.
NextPrelude ==
    \/ TavilySolve
    \/ AugmentProblem
    \/ SynthesizeTeam

SpecPrelude == InitPrelude /\ [][NextPrelude]_vars

\* SpecResearch: step 3, _run_agent_specific_research on every roster.  It
\* starts where solve stands after a team synthesis that followed a failed
\* query generation.
InitResearch ==
    /\ variant = "gen_ai_04"
    /\ num_solutions = MaxSolutions
    /\ generations = 0
    /\ pc = "IDLE"
    /\ history = <<>>
    /\ llm_calls = NoCalls
    /\ reported = FALSE
    /\ final_result = <<>>
    /\ FreshLocals
    /\ CallIdle
    /\ StreamIdle
    /\ ReplayIdle
    /\ PartIdle
    /\ prep_pc = "RESEARCH"
    /\ query_generation = "failed"
    /\ analysis_results_list = 0
    /\ solution_results_list = 0
    /\ failed_searches = 0
    /\ summary_ret = "none"
    /\ augmented_problem = "original"
    /\ persona_problem = "original"
    /\ solver_personas \in Rosters
    /\ agent_queries = NoQueries
    /\ research_pos = 1
    /\ updated_agents = <<>>
    /\ research_failures = <<>>

NextResearch ==
    \/ GenerateAgentQueries
    \/ ResearchAgent
    \/ FinishResearch

SpecResearch == InitResearch /\ [][NextResearch]_vars

\* Every gateway call of the research returns: the model gateway returns a
\* value or a sentinel, the search gateway has a timeout.
SpecResearchFair ==
    SpecResearch
        /\ WF_vars(GenerateAgentQueries \/ ResearchAgent \/ FinishResearch)

(***************************************************************************)
(* SpecReplay: one run whose inputs are recorded on a tape, then a second  *)
(* solve on the same solver that is given the tape again.  The inputs are  *)
(* the generations argument and what the model gateway returned to each    *)
(* call; the random draws of _generate_next_generation select the prompt   *)
(* of a call and reach the run through that call's response only.          *)
(***************************************************************************)
\* The population size and the number of solver personas of a recorded run.
ReplaySize == 1

\* The numbers of evaluators of a recorded run.
ReplayEvaluators == {1}

\* One entry of the tape: the step it was given to, and the kinds, numbers
\* and evaluator responses it consisted of.
Input(op, kinds, counts, responses) ==
    [op |-> op, kinds |-> kinds, counts |-> counts, responses |-> responses]

InitReplay ==
    /\ variant \in Variants
    /\ num_solutions \in 1..ReplaySize
    /\ generations = 0
    /\ pc = "IDLE"
    /\ history = <<>>
    /\ llm_calls = NoCalls
    /\ reported = FALSE
    /\ final_result = <<>>
    /\ FreshLocals
    /\ CallIdle
    /\ StreamIdle
    /\ ReplayIdle
    /\ PartIdle
    /\ PrepIdle

RecordSolve ==
    /\ pc = "IDLE"
    /\ \E g \in 1..MaxGenerations :
         /\ SolveFrom({g})
         /\ tape' = <<Input("solve", <<>>, <<g>>, <<>>)>>
    /\ UNCHANGED <<replay_pos, first_history>>

RecordSynthesize ==
    /\ replay_pos = 0
    /\ \E kind \in PersonaKinds :
       \E sa \in IF variant = "app" THEN {1} ELSE 1..ReplaySize :
       \E ev \in ReplayEvaluators :
         /\ SynthesizePersonasFrom({kind}, {sa}, {ev})
         /\ tape' = Append(tape, Input("persona", <<kind>>, <<sa, ev>>, <<>>))
    /\ UNCHANGED <<replay_pos, first_history>>

RecordSeed ==
    /\ replay_pos = 0
    /\ \/ /\ variant = "gen_ai_04"
          /\ \E f \in [1..solver_agents -> GenKinds] :
               /\ SeedPopulationFrom({f}, {})
               /\ tape' = Append(tape, Input("seed", f, <<>>, <<>>))
       \/ /\ variant = "app"
          /\ \E k \in 0..ReplaySize :
               /\ SeedPopulationFrom({}, {k})
               /\ tape' = Append(tape, Input("seed", <<>>, <<k>>, <<>>))
    /\ UNCHANGED <<replay_pos, first_history>>

RecordEvolve ==
    /\ replay_pos = 0
    /\ \/ /\ variant = "gen_ai_04"
          /\ \E f \in [1..num_solutions -> GenKinds] :
               /\ EvolveFrom({f}, {})
               /\ tape' = Append(tape, Input("evolve", f, <<>>, <<>>))
       \/ /\ variant = "app"
          /\ \E k \in 0..ReplaySize :
               /\ EvolveFrom({}, {k})
               /\ tape' = Append(tape, Input("evolve", <<>>, <<k>>, <<>>))
    /\ UNCHANGED <<replay_pos, first_history>>

RecordEvaluate ==
    /\ replay_pos = 0
    /\ pc = "EVALUATE"
    /\ EvaluatorsUsable
    /\ eval_pos <= Len(solutions)
    /\ \E rs \in IF variant = "gen_ai_04" /\ ~solutions[eval_pos].main
                 THEN {<<>>} ELSE JudgeInputs(RunJudgeDom) :
         /\ EvaluateProposalFrom({rs})
         /\ tape' = Append(tape, Input("evaluate", <<>>, <<>>, rs))
    /\ UNCHANGED <<replay_pos, first_history>>

\* The second solve(problem_statement, generations) on the same solver.
ReplaySolve ==
    /\ replay_pos = 0
    /\ pc \in {"DONE", "ABORTED"}
    /\ SolveFrom({tape[1].counts[1]})
    /\ first_history' = history
    /\ replay_pos' = 2
    /\ UNCHANGED tape

\* The next entry of the tape, when it was recorded for the step `op`.
Given(op) ==
    /\ replay_pos \in 2..Len(tape)
    /\ tape[replay_pos].op = op

Consume ==
    /\ replay_pos' = replay_pos + 1
    /\ UNCHANGED <<tape, first_history>>

ReplaySynthesize ==
    /\ Given("persona")
    /\ SynthesizePersonasFrom({tape[replay_pos].kinds[1]},
                              {tape[replay_pos].counts[1]},
                              {tape[replay_pos].counts[2]})
    /\ Consume

ReplaySeed ==
    /\ Given("seed")
    /\ SeedPopulationFrom({tape[replay_pos].kinds},
                          {tape[replay_pos].counts[j] :
                               j \in 1..Len(tape[replay_pos].counts)})
    /\ Consume

ReplayEvolve ==
    /\ Given("evolve")
    /\ EvolveFrom({tape[replay_pos].kinds},
                  {tape[replay_pos].counts[j] :
                       j \in 1..Len(tape[replay_pos].counts)})
    /\ Consume

ReplayEvaluate ==
    /\ Given("evaluate")
    /\ EvaluateProposalFrom({tape[replay_pos].responses})
    /\ Consume

NextReplay ==
    \/ RecordSolve
    \/ RecordSynthesize
    \/ RecordSeed
    \/ RecordEvolve
    \/ RecordEvaluate
    \/ FinishEvaluation
    \/ RankFinal
    \/ ReplaySolve
    \/ ReplaySynthesize
    \/ ReplaySeed
    \/ ReplayEvolve
    \/ ReplayEvaluate

SpecReplay == InitReplay /\ [][NextReplay]_vars

(***************************************************************************)
(* Properties.                                                             *)
(***************************************************************************)
Abs(x) == IF x >= 0 THEN x ELSE -x

\* m is the integer nearest to total / n, the even one of the two when
\* total / n lies halfway between them.
IsRoundedMean(m, total, n) ==
    /\ 2 * Abs(n * m - total) <= n
    /\ 2 * Abs(n * m - total) = n => m % 2 = 0

\* floor(0.4 * n)
FloorFortyPercent(n) == CHOOSE k \in 0..n : 5 * k <= 2 * n /\ 5 * (k + 1) > 2 * n

EntriesOf(seq) == {seq[i] : i \in 1..Len(seq)}

\* C1: in every Generation Record of history, results is ordered by
\* total_score descending, and entries of equal total_score stand in the
\* order in which their proposals were generated (idx ascending).
C1_ResultsSortedStable ==
    \A k \in 1..Len(history) :
        LET r == history[k].results
        IN  \A i \in 1..Len(r) : \A j \in (i + 1)..Len(r) :
                /\ r[i].has_score /\ r[j].has_score
                /\ \/ r[i].total_score > r[j].total_score
                   \/ /\ r[i].total_score = r[j].total_score
                      /\ r[i].idx < r[j].idx

\* C1 witness: a history holding a record whose two entries tie and a
\* record whose later-generated proposal was sorted to the front.
C1_Witness ==
    /\ \E k \in 1..Len(history) :
         /\ Len(history[k].results) = 2
         /\ history[k].results[1].total_score = history[k].results[2].total_score
    /\ \E k \in 1..Len(history) :
         /\ Len(history[k].results) = 2
         /\ history[k].results[1].idx = 2

\* C2 (state part): for the proposal _evaluate_solutions of gen_ai_04.py
\* handled last, the valid responses are those carrying a total_score; with
\* none the proposal has no entry, otherwise it has exactly one entry and
\* its total_score is the rounded mean of the valid responses' scores.
C2_LastProposalAggregated ==
    (variant = "gen_ai_04" /\ pc = "EVALUATE" /\ eval_pos > 1
        /\ solutions[eval_pos - 1].main) =>
    LET p == solutions[eval_pos - 1]
        valid == {j \in 1..Len(judge_responses) :
                     judge_responses[j].kind = "scored"}
        total == SumScores(SelectSeq(judge_responses,
                                     LAMBDA r : r.kind = "scored"))
        mine == {i \in 1..Len(evaluated_solutions) :
                     evaluated_solutions[i].idx = p.idx}
    IN  /\ Len(judge_responses) = evaluators
        /\ IF valid = {} THEN mine = {}
           ELSE /\ Cardinality(mine) = 1
                /\ \A i \in mine :
                     IsRoundedMean(evaluated_solutions[i].total_score, total,
                                   Cardinality(valid))

\* C2 (step part): the results of an appended record are the entries of
\* evaluated_solutions, no more and no fewer.
C2_RecordHoldsEntries ==
    (Len(history') = Len(history) + 1) =>
        /\ EntriesOf(history'[Len(history')].results) = EntriesOf(evaluated_solutions)
        /\ Len(history'[Len(history')].results) = Len(evaluated_solutions)

\* C2: the aggregated total_score of every evaluated proposal is
\* round(mean of the scores of exactly the valid evaluator responses), and a
\* proposal without a valid response is absent from the generation's results.
C2_AggregatedScore ==
    [](C2_LastProposalAggregated) /\ [][C2_RecordHoldsEntries]_vars

\* C2 witness: two evaluators answered for a proposal, one validly with a
\* score and one with a failure, and the proposal's entry carries that score.
C2_Witness ==
    /\ variant = "gen_ai_04" /\ pc = "EVALUATE" /\ eval_pos > 1
    /\ Len(judge_responses) = 2
    /\ judge_responses[1].kind = "error"
    /\ judge_responses[2].kind = "scored"
    /\ evaluated_solutions # <<>>
    /\ evaluated_solutions[Len(evaluated_solutions)].idx = eval_pos - 1
    /\ evaluated_solutions[Len(evaluated_solutions)].total_score =
          judge_responses[2].total_score

\* C3: for a previous generation of n >= 1 results the elite subset has
\* max(1, floor(0.4 n)) entries, and elite followed by failed is the list of
\* results itself: disjoint, every entry exactly once.
C3_ElitePartition ==
    (partitioned /\ Len(prev_results) >= 1) =>
        /\ Len(elite_solutions) =
              (IF FloorFortyPercent(Len(prev_results)) >= 1
               THEN FloorFortyPercent(Len(prev_results)) ELSE 1)
        /\ elite_solutions \o failed_solutions = prev_results
        /\ EntriesOf(elite_solutions) \cap EntriesOf(failed_solutions) = {}

\* C3 witness: five results were split into two elites and three others.
C3_Witness ==
    /\ partitioned
    /\ Len(prev_results) = 5
    /\ Len(elite_solutions) = 2
    /\ Len(failed_solutions) = 3

\* C4: once the ranking is computed, its first item is the entry with the
\* maximum total_score of the flattened history, and of the entries with
\* that score the first in history order.
C4_BestIsFirstGlobalMax ==
    (reported /\ Flatten(history) # <<>>) =>
        LET all == Flatten(history)
        IN  /\ final_result # <<>>
            /\ \E p \in 1..Len(all) :
                 /\ all[p] = final_result[1]
                 /\ \A q \in 1..Len(all) :
                      /\ all[q].total_score <= all[p].total_score
                      /\ q < p => all[q].total_score < all[p].total_score

\* C4 witness: two generations were recorded, the best score of generation 1
\* equals the best score of generation 0, and the ranking is computed.
C4_Witness ==
    /\ reported
    /\ Len(history) = 2
    /\ history[1].results # <<>> /\ history[2].results # <<>>
    /\ history[1].results[1].total_score = history[2].results[1].total_score
    /\ final_result # <<>>
    /\ final_result[1].gen = 0

\* C5: the k-th record of history has generation index k, counted from 0.
C5_IndicesContiguous ==
    \A k \in 1..Len(history) : history[k].generation = k - 1

\* C5 witness: a run that recorded two generations and ended.
C5_Witness ==
    /\ pc = "DONE"
    /\ Len(history) = 2

\* C6 (as claimed): every aggregated total_score that _evaluate_solutions of
\* gen_ai_04.py stored in a Generation Record lies between 0 and 100,
\* whatever the evaluator calls returned.
C6_ScoreInRange ==
    variant = "gen_ai_04" =>
        \A k \in 1..Len(history) : \A i \in 1..Len(history[k].results) :
            history[k].results[i].total_score \in 0..100

\* A persona response that is a failure sentinel or lacks a roster key.
PersonaFailure == {"error", "parse_error", "empty", "missing_keys"}

\* C7: after a failed persona synthesis the run is aborted, no seed, evolve
\* or evaluation call has been issued and history holds no record.
C7_PersonaFailureAborts ==
    agent_personas \in PersonaFailure =>
        /\ pc = "ABORTED"
        /\ llm_calls.seed = 0 /\ llm_calls.evolve = 0 /\ llm_calls.evaluate = 0
        /\ history = <<>>

\* C7 witness: the response stayed unparsable after the repair, and the
\* stream has ended (the ranking found nothing).
C7_Witness ==
    /\ agent_personas = "parse_error"
    /\ pc = "ABORTED"
    /\ reported
    /\ final_result = <<>>

\* C8 (as claimed): every Generation Record holds at least one scored
\* proposal.
C8_RecordsNonEmpty ==
    \A k \in 1..Len(history) : history[k].results # <<>>

\* The number of evolve steps that issued generation calls so far.
EvolveSteps ==
    IF variant = "app" THEN llm_calls.evolve ELSE llm_calls.evolve \div num_solutions

\* C9 (as claimed): every evolve step that issued a generation call worked
\* from a previous generation with at least one result.
C9_EvolveFromNonEmpty ==
    \A i \in 1..EvolveSteps : i <= Len(history) => history[i].results # <<>>

\* C10 (state part): one call invokes the backend at most twice; the repair
\* frame is entered after exactly one invocation; a returned call gives a
\* parsed value or a failure sentinel, after two invocations exactly when
\* the first response could not be parsed.
C10_RepairOnce ==
    /\ backend_calls <= 2
    /\ (call_pc = "generate" /\ is_retry) => backend_calls = 1
    /\ (call_pc = "generate" /\ ~is_retry) => backend_calls = 0
    /\ call_pc = "returned" =>
         /\ call_result \in {"parsed", "error", "parse_error"}
         /\ first_outcome \in {"no_json", "bad_json"} <=> backend_calls = 2
         /\ first_outcome \in {"parsed", "exception"} <=> backend_calls = 1
         /\ call_result = "parse_error" => backend_calls = 2

\* C10: a call issues exactly one repair attempt for an unparsable first
\* response and never more, and every call returns.
C10_SingleRepair ==
    [](C10_RepairOnce) /\ ((call_pc = "generate") ~> (call_pc = "returned"))

\* C10 witness: the first response held a JSON block that did not parse, the
\* repair response held none, and the call returned the failure sentinel.
C10_Witness ==
    /\ call_pc = "returned"
    /\ first_outcome = "bad_json"
    /\ backend_calls = 2
    /\ Classify(text) = "no_json"
    /\ call_result = "parse_error"

\* C11 (as claimed): no exception leaves a solve run, whatever the model
\* gateway returns: the run never stands at a raised exception.
C11_NoRawException == pc # "RAISED"

\* C15 (as claimed): every proposal that _evaluate_solutions of gen_ai_04.py
\* scored and that stands in a Generation Record has both proposal_main and
\* proposal_details.
C15_ScoredProposalsComplete ==
    variant = "gen_ai_04" =>
        \A k \in 1..Len(history) : \A i \in 1..Len(history[k].results) :
            LET e == history[k].results[i]
            IN  e.gen = gen =>
                    /\ solutions[e.idx].main
                    /\ solutions[e.idx].details

\* C12: once the augmentation step has run, if the query generation failed
\* or no search gathered a result, augmented_problem is the original problem
\* statement, and persona synthesis is the next step and is called with it.
C12_AugmentationFallsBack ==
    (/\ prep_pc \notin {"idle", "AUGMENT"}
     /\ \/ query_generation = "failed"
        \/ analysis_results_list = 0 /\ solution_results_list = 0) =>
        /\ augmented_problem = "original"
        /\ IF prep_pc = "PERSONA" THEN persona_problem = "none"
           ELSE persona_problem = "original"

\* C12 witness: queries were generated, at least two searches were made and
\* all of them failed, and the personas were synthesized from the original
\* problem statement.
C12_Witness ==
    /\ query_generation = "generated"
    /\ failed_searches >= 2
    /\ analysis_results_list = 0 /\ solution_results_list = 0
    /\ prep_pc = "RESEARCH"
    /\ persona_problem = "original"

\* C19 (state part): the personas handled by the research are the input
\* personas in input order; when the research has returned the list is
\* complete; a persona for which the batched query generation, the query
\* lookup, the search or the analysis failed carries no or an empty insight
\* list.
C19_PersonasKept ==
    /\ prep_pc \in {"RESEARCH_LOOP", "READY"} =>
         /\ updated_agents =
              SubSeq(solver_personas, 1, Len(updated_agents))
         /\ \A i \in 1..Len(research_failures) :
              research_failures[i] # "none" =>
                  /\ i <= Len(updated_agents)
                  /\ updated_agents[i].insights \in {"none", "empty"}
    /\ prep_pc = "READY" => Len(updated_agents) = Len(solver_personas)

\* C19: the research returns the input personas in input order, a persona
\* affected by a failure has no or an empty insight list, and the run always
\* gets from the research to the start of generation 0.
C19_ResearchNeverBlocks ==
    [](C19_PersonasKept) /\ ((prep_pc = "RESEARCH") ~> (prep_pc = "READY"))

\* C19 witness: of two personas the first got no search results and the
\* second got insights; the research has returned both.
C19_Witness ==
    /\ prep_pc = "READY"
    /\ Len(updated_agents) = 2
    /\ research_failures = <<"search", "none">>
    /\ updated_agents[1].insights = "none"
    /\ updated_agents[2].insights = "filled"

\* C13: of the prompts an evolve step builds from a previous generation of
\* n >= 1 results, a mutation prompt is given no entry of the elite or the
\* failed subset, and a recombination prompt is given both subsets: a first
\* part of max(1, floor(0.4 n)) results and all the other results.
C13_PromptBranches ==
    Len(prev_results) >= 1 =>
        \A k \in 1..Len(prompts) :
            /\ prompts[k].branch = "mutation" =>
                  (EntriesOf(prompts[k].elite) \cup EntriesOf(prompts[k].failed))
                      \cap EntriesOf(prev_results) = {}
            /\ prompts[k].branch = "recombination" =>
                  /\ prompts[k].elite \o prompts[k].failed = prev_results
                  /\ Len(prompts[k].elite) =
                        (IF FloorFortyPercent(Len(prev_results)) >= 1
                         THEN FloorFortyPercent(Len(prev_results)) ELSE 1)

\* C13 witness: from three results a step built a mutation prompt and then
\* a recombination prompt that was given one elite and two failed results.
C13_Witness ==
    /\ Len(prev_results) = 3
    /\ Len(prompts) = 2
    /\ prompts[1].branch = "mutation"
    /\ prompts[2].branch = "recombination"
    /\ Len(prompts[2].elite) = 1
    /\ Len(prompts[2].failed) = 2

\* C16 (as claimed): a run of two generations that ended without a starved
\* phase holds exactly two Generation Records, index 0 then index 1, and no
\* record holds more scored entries than the configured population size.
C16_RecordsWithinPopulation ==
    (pc = "DONE" /\ generations = 2
        /\ \A k \in 1..Len(history) : history[k].results # <<>>) =>
        /\ Len(history) = 2
        /\ history[1].generation = 0
        /\ history[2].generation = 1
        /\ \A k \in 1..Len(history) :
              Len(history[k].results) <= num_solutions

\* C17: whenever a check ends a run early, the lines yielded just before
\* its return or break are about what failed, the first of them being the
\* error line of that check.
C17_AbortExplained ==
    pc = "ABORTED" =>
        /\ abort_cause # "none"
        /\ abort_point \in 1..Len(stream_tail)
        /\ \E j \in 1..abort_point :
              /\ stream_tail[j].kind = "error"
              /\ \A l \in j..abort_point : stream_tail[l].about = abort_cause

\* C17 witness: generation 1 of a gen_ai_04 run got no scored proposal; the
\* error line about the evaluation came right before the break.
C17_Witness ==
    /\ pc = "ABORTED"
    /\ variant = "gen_ai_04"
    /\ Len(history) = 1
    /\ abort_cause = "evaluation"
    /\ stream_tail[abort_point] = [kind |-> "error", about |-> "evaluation"]

\* C18 (as claimed): a run that ended is terminated by the completion line
\* when it was not aborted and by an error line when it was, and an aborted
\* run never yields the completion line.
C18_CompletionXorAbort ==
    /\ pc = "DONE" =>
          stream_tail[Len(stream_tail)].kind = "completion"
    /\ pc = "ABORTED" =>
          /\ stream_tail[Len(stream_tail)].kind \in {"error", "debug"}
          /\ \A j \in 1..Len(stream_tail) : stream_tail[j].kind # "completion"

\* C20 (as claimed): a synthesis result with solver_agents and evaluators
\* but without output_labels is accepted: the persona check does not end
\* the run.
C20_LabelsOptional ==
    agent_personas = "no_labels" => abort_cause # "persona"

\* The step that reads the gateway next, if the run stands before one.
AwaitedInput ==
    CASE pc = "PERSONA_SYNTHESIS" -> "persona"
      [] pc = "SEED_POPULATION" -> "seed"
      [] pc = "EVOLVE" -> "evolve"
      [] pc = "EVALUATE" /\ EvaluatorsUsable /\ eval_pos <= Len(solutions) ->
            "evaluate"
      [] OTHER -> "none"

CountedJudges ==
    SelectSeq([j \in 1..Len(judge_responses) |-> j],
              LAMBDA j : IsValidEvaluation(judge_responses[j]))

\* C21 (as claimed): the aggregated texts of a scored proposal carry one
\* label per counted judge, in judge order, each with that judge's own
\* position in the evaluator roster and that evaluator persona's role.
C21_LabelsAttributed ==
    (variant = "gen_ai_04" /\ agg_labels # <<>>) =>
        /\ Len(agg_labels) = Len(CountedJudges)
        /\ \A k \in 1..Len(agg_labels) :
              /\ agg_labels[k].judge = CountedJudges[k]
              /\ agg_labels[k].role = EvaluatorRoles[CountedJudges[k]]

\* C22 (as claimed): the elite subset of a previous generation of n >= 1
\* results has ceil(0.4 n) entries.
C22_EliteIsCeilForty ==
    (partitioned /\ Len(prev_results) >= 1) =>
        Len(elite_solutions) = (4 * Len(prev_results) + 9) \div 10

\* The evolve steps of the run that have generated their proposals.
EvolveStepsDone == IF pc = "EVOLVE" THEN gen - 1 ELSE gen

\* C23: in gen_ai_04.py every evolve step issues exactly num_solutions
\* generation calls, whatever the calls return, and the proposals of a
\* generation i >= 1, in the step and in its record, are at most
\* num_solutions.
C23_EvolveCallsExact ==
    variant = "gen_ai_04" =>
        /\ llm_calls.evolve = num_solutions * EvolveStepsDone
        /\ EvolveStepsDone >= 1 => Len(solutions) <= num_solutions
        /\ \A k \in 2..Len(history) :
              Len(history[k].results) <= num_solutions

\* C23 witness: an evolve step of two calls lost one of them and went on
\* to evaluate the single proposal of the other.
C23_Witness ==
    /\ variant = "gen_ai_04"
    /\ pc = "EVALUATE"
    /\ gen = 1
    /\ num_solutions = 2
    /\ llm_calls.evolve = 2
    /\ Len(solutions) = 1

\* C24 (as claimed): the seed step of gen_ai_04.py issues one generation
\* call per solver persona and its population holds at most one proposal
\* per persona, none of them lacking a required proposal field.
C24_SeedKeepsWellFormed ==
    (variant = "gen_ai_04" /\ gen = 0 /\ pc \in {"EVALUATE", "ABORTED"}
        /\ agent_personas = "complete") =>
        /\ llm_calls.seed = solver_agents
        /\ Len(solutions) <= solver_agents
        /\ \A i \in 1..Len(solutions) :
              solutions[i].main /\ solutions[i].details

\* C25: once the augmentation step has run with at least one search result
\* gathered and a summary response that is the failure sentinel, has none of
\* the summary keys or cannot be composed, augmented_problem is the fallback
\* text (titles and URLs, then the original problem statement), the run is
\* not ended by it, and persona synthesis is called with that text.
C25_FallbackDigest ==
    (/\ prep_pc \notin {"idle", "AUGMENT"}
     /\ analysis_results_list + solution_results_list >= 1
     /\ summary_ret \in {"error", "unusable"}) =>
        /\ augmented_problem = "fallback"
        /\ IF prep_pc = "PERSONA" THEN persona_problem = "none"
           ELSE persona_problem = "fallback"

\* C25 witness: a search gathered a result, the summary response was the
\* failure sentinel, and the personas were synthesized from the fallback
\* text.
C25_Witness ==
    /\ analysis_results_list + solution_results_list >= 1
    /\ summary_ret = "error"
    /\ prep_pc = "RESEARCH"
    /\ persona_problem = "fallback"


\* C26: while the proposals of generation i >= 1 are evaluated, the elite
\* and failed lists they were built from are, together and in order, the
\* results of the last record of history, that record is generation i - 1,
\* and every entry of the two lists is a proposal of generation i - 1.
C26_PartitionFromLastRecord ==
    (pc = "EVALUATE" /\ gen >= 1) =>
        /\ Len(history) = gen
        /\ history[Len(history)].generation = gen - 1
        /\ elite_solutions \o failed_solutions = history[Len(history)].results
        /\ \A e \in EntriesOf(elite_solutions \o failed_solutions) :
             e.gen = gen - 1

\* C26 witness: the proposals of generation 2 are being evaluated, history
\* holds the records of generations 0 and 1, both with results, and both
\* lists of the partition are filled.
C26_Witness ==
    /\ pc = "EVALUATE"
    /\ gen = 2
    /\ Len(history) = 2
    /\ history[1].results # <<>>
    /\ elite_solutions # <<>>
    /\ failed_solutions # <<>>


\* C27: within one run every step either leaves history as it is or
\* appends exactly one Generation Record at its end; the records already
\* there, their generation and results included, stay as they were.
C27_HistoryAppendOnly ==
    [][\/ history' = history
       \/ /\ Len(history') = Len(history) + 1
          /\ SubSeq(history', 1, Len(history)) = history]_vars

\* C27 witness: two records were appended, the proposals of generation 2
\* were generated and evaluated, and the run was ended by the check of
\* their evaluation.
C27_Witness ==
    /\ Len(history) = 2
    /\ history[1].results # <<>>
    /\ gen = 2
    /\ pc = "ABORTED"
    /\ abort_cause = "evaluation"


\* C28: in a run of G >= 1 generations history never holds more than G
\* records and holds exactly G when the run ends without a check ending
\* it; when a check ends the run in generation i >= 1, history holds the
\* records of generations 0..i-1, and from then on no step makes a model
\* call or changes history.
C28_RunBounded ==
    /\ [](/\ Len(history) <= generations
          /\ pc = "DONE" => Len(history) = generations
          /\ (pc = "ABORTED" /\ gen >= 1) =>
                /\ Len(history) = gen
                /\ \A k \in 1..gen : history[k].generation = k - 1)
    /\ [][pc = "ABORTED" =>
            /\ llm_calls' = llm_calls
            /\ history' = history]_vars

\* C28 witness: a run of three generations was ended in generation 2 by the
\* check of the generated proposals, the ranking was computed after it, and
\* history holds two records.
C28_Witness ==
    /\ generations = 3
    /\ pc = "ABORTED"
    /\ abort_cause = "evolve"
    /\ gen = 2
    /\ reported
    /\ Len(history) = 2


\* C29: when the mean of the counted responses' scores of the proposal
\* handled last lies exactly halfway between two integers, the entry's
\* total_score is the even one of the two.
C29_TieToEven ==
    (variant = "gen_ai_04" /\ pc = "EVALUATE" /\ eval_pos > 1
        /\ solutions[eval_pos - 1].main) =>
    LET counted == SelectSeq(judge_responses, IsValidEvaluation)
        total == SumScores(counted)
        n == Len(counted)
    IN  (n >= 1 /\ 2 * (total % n) = n) =>
            /\ evaluated_solutions # <<>>
            /\ LET score ==
                     evaluated_solutions[Len(evaluated_solutions)].total_score
               IN  /\ evaluated_solutions[Len(evaluated_solutions)].idx
                        = solutions[eval_pos - 1].idx
                   /\ score % 2 = 0
                   /\ score \in {total \div n, total \div n + 1}

\* C29 witness: two evaluators scored the second proposal 1 and 2 (mean
\* 1.5) and its entry carries 2; the entry of the first proposal carries 0.
C29_Witness ==
    /\ variant = "gen_ai_04" /\ pc = "EVALUATE" /\ eval_pos = 3
    /\ Len(judge_responses) = 2
    /\ judge_responses[1].kind = "scored" /\ judge_responses[1].total_score = 1
    /\ judge_responses[2].kind = "scored" /\ judge_responses[2].total_score = 2
    /\ Len(evaluated_solutions) = 2
    /\ evaluated_solutions[1].total_score = 0
    /\ evaluated_solutions[2].total_score = 2


\* C30: while the proposals of generation i >= 1 are evaluated, the elite
\* list they were built from is a prefix of the results of the previous
\* generation's record, the failed list is the rest, and no elite entry has
\* a lower total_score than any failed entry.
C30_EliteOutscoresFailed ==
    (pc = "EVALUATE" /\ gen >= 1) =>
        LET previous == history[Len(history)].results
        IN  /\ Len(elite_solutions) <= Len(previous)
            /\ elite_solutions = SubSeq(previous, 1, Len(elite_solutions))
            /\ failed_solutions =
                 SubSeq(previous, Len(elite_solutions) + 1, Len(previous))
            /\ \A e \in EntriesOf(elite_solutions) :
                 \A f \in EntriesOf(failed_solutions) :
                     e.total_score >= f.total_score

\* C30 witness: generation 2 is built from an elite entry scored 2 that was
\* the second proposal of generation 1 and a failed entry scored 1 that was
\* its first proposal.
C30_Witness ==
    /\ pc = "EVALUATE"
    /\ gen = 2
    /\ Len(elite_solutions) = 1
    /\ Len(failed_solutions) = 1
    /\ elite_solutions[1].total_score = 2
    /\ elite_solutions[1].idx = 2
    /\ failed_solutions[1].total_score = 1
    /\ failed_solutions[1].idx = 1

====
